---- MODULE Spec2Model ----
(***************************************************************************)
(* Model of app.py (R.O / BO impediment manager): the cell normalizers,    *)
(* the enrichment pipeline over the data frame, the memoized boundary      *)
(* fetch with its fallback chain, and the per-municipality join.           *)
(*                                                                         *)
(* Text is modelled as a sequence of one-character strings, so that the    *)
(* regular expressions, padding and slicing of the source are computed     *)
(* character by character.  A cell of a pandas frame is a record           *)
(* [k, s]: k = "None" (Python None), "NaN" (float nan) or "str" with the   *)
(* text in s.                                                              *)
(***************************************************************************)
EXTENDS Integers, Sequences, FiniteSets, TLC

VARIABLES
    bo,          \* argument of the normalize_bo call under study
    bo_norm,     \* its return value ("unset" until the call has run)
    df_pc,       \* position of the script in the enrichment of the frame
    df,          \* the working data frame: a sequence of rows (records by column)
    cache,       \* st.cache_data entries of load_geojson_municipios, by uf_code
    reruns,      \* script runs of the session so far
    uf_escolhida,\* the UF label selected in the current run
    fetch_pc,    \* position of the current run in the boundary fetch
    attempts,    \* requests issued by the current call, in order
    gj,          \* the script's gj variable
    raised,      \* exceptions that escaped load_geojson_municipios in this run
    st_msgs,     \* st.error / st.warning messages shown by the map section in this run
    net_requests,\* requests issued in the session, by uf_code
    chain_runs,  \* executions of the body of load_geojson_municipios, by uf_code
    join_pc,     \* position of the script in the map aggregation
    fdf,         \* Cidade column of the filtered view
    features,    \* gj["features"]
    city_counts, \* the grouped counts, Cidade_norm -> Qtde
    muni_df,     \* the frame extracted from the features
    joined,      \* the merged frame
    nao_casaram, \* record-side names without a boundary entry
    dval,        \* argument of the try_parse_date_any call under study
    date_out,    \* its return value ("unset" until the call has run)
    new_rows,    \* st.session_state["new_rows"]
    form_errors, \* errors shown by the last submission of the form
    columns,     \* columns of the frame being mapped, in order
    missing,     \* the script's list missing
    cols_pc      \* position of the script in the column mapping

bo_vars == <<bo, bo_norm>>
pipe_vars == <<df_pc, df>>
fetch_vars ==
    <<cache, reruns, uf_escolhida, fetch_pc, attempts, gj, raised, st_msgs, net_requests,
      chain_runs>>
join_vars == <<join_pc, fdf, features, city_counts, muni_df, joined, nao_casaram>>
date_vars == <<dval, date_out>>
form_vars == <<new_rows, form_errors>>
cols_vars == <<columns, missing, cols_pc>>
ext_vars == <<date_vars, form_vars, cols_vars>>
vars == <<bo_vars, pipe_vars, fetch_vars, join_vars, ext_vars>>

---------------------------------------------------------------------------
(* Cells and Python's str() / pd.isna()                                    *)

None == [k |-> "None", s |-> <<>>]
NaN == [k |-> "NaN", s |-> <<>>]
Unset == [k |-> "unset", s |-> <<>>]
Str(s) == [k |-> "str", s |-> s]

isna(v) == v.k \in {"None", "NaN"}

PyStr(v) ==
    IF v.k = "None" THEN <<"N", "o", "n", "e">>
    ELSE IF v.k = "NaN" THEN <<"n", "a", "n">>
    ELSE v.s

Digits == {"0", "1", "2", "3", "4", "5", "6", "7", "8", "9"}
Whitespace == {" ", "\n", "\r", "\t"}

RECURSIVE LStrip(_)
LStrip(s) == IF s = <<>> \/ Head(s) \notin Whitespace THEN s ELSE LStrip(Tail(s))

RECURSIVE RStrip(_)
RStrip(s) ==
    IF s = <<>> \/ s[Len(s)] \notin Whitespace THEN s
    ELSE RStrip(SubSeq(s, 1, Len(s) - 1))

strip(s) == RStrip(LStrip(s))

RECURSIVE Flatten(_)
Flatten(ss) == IF ss = <<>> THEN <<>> ELSE Head(ss) \o Flatten(Tail(ss))

---------------------------------------------------------------------------
(* normalize_bo                                                            *)

\* re.sub(r"[^0-9/\-]", "", s)
KeepBOChars(s) == SelectSeq(s, LAMBDA c : c \in Digits \cup {"/", "-"})

AllDigits(s, i, j) == \A p \in i..j : s[p] \in Digits

\* re.fullmatch(r"\d{3}-\d{5}/\d{4}", s)
MatchesBOPattern(s) ==
    /\ Len(s) = 14
    /\ AllDigits(s, 1, 3)
    /\ s[4] = "-"
    /\ AllDigits(s, 5, 9)
    /\ s[10] = "/"
    /\ AllDigits(s, 11, 14)

\* re.findall(r"\d+", s): the maximal digit runs, left to right
RECURSIVE RunsFrom(_, _, _)
RunsFrom(s, cur, acc) ==
    IF s = <<>> THEN (IF cur = <<>> THEN acc ELSE Append(acc, cur))
    ELSE IF Head(s) \in Digits THEN RunsFrom(Tail(s), Append(cur, Head(s)), acc)
    ELSE RunsFrom(Tail(s), <<>>, IF cur = <<>> THEN acc ELSE Append(acc, cur))

findall_digits(s) == RunsFrom(s, <<>>, <<>>)

\* str.zfill(n) on a digit run
zfill(r, n) == IF Len(r) >= n THEN r ELSE [i \in 1..(n - Len(r)) |-> "0"] \o r

\* r.zfill(n) without the [-n:] slice
ZfillNoSlice(r, n) == zfill(r, n)

\* r.zfill(n)[-n:]
ZfillTail(r, n) == SubSeq(zfill(r, n), Len(zfill(r, n)) - n + 1, Len(zfill(r, n)))

\* digits[0], digits[1], digits[2] instead of the last three
FirstThree(d) == <<d[1], d[2], d[3]>>

\* a, b, c = digits[-3], digits[-2], digits[-1]
LastThree(d) == <<d[Len(d) - 2], d[Len(d) - 1], d[Len(d)]>>

WidthA == 3
WidthB == 5
WidthC == 4

normalize_bo(v) ==
    IF isna(v) \/ strip(PyStr(v)) = <<>> THEN None
    ELSE LET s == KeepBOChars(PyStr(v))
             digits == findall_digits(s)
         IN  IF MatchesBOPattern(s) THEN Str(s)
             ELSE IF Len(digits) >= 3
                  THEN LET g == LastThree(digits)
                       IN  Str(ZfillTail(g[1], WidthA) \o <<"-">>
                               \o ZfillTail(g[2], WidthB) \o <<"/">>
                               \o ZfillTail(g[3], WidthC))
                  ELSE IF s # <<>> THEN Str(s) ELSE None

---------------------------------------------------------------------------
(* Variables a specification does not use stay at these values             *)

BOIdle == bo = None /\ bo_norm = Unset
PipeIdle == df_pc = "off" /\ df = <<>>
FetchIdle ==
    /\ cache = <<>> /\ reruns = 0 /\ uf_escolhida = "" /\ fetch_pc = "off"
    /\ attempts = <<>> /\ gj = <<>> /\ raised = <<>> /\ st_msgs = <<>>
    /\ net_requests = <<>> /\ chain_runs = <<>>
JoinIdle ==
    /\ join_pc = "off" /\ fdf = <<>> /\ features = <<>> /\ city_counts = {}
    /\ muni_df = <<>> /\ joined = <<>> /\ nao_casaram = {}
DateIdle == dval = None /\ date_out = Unset
FormIdle == new_rows = <<>> /\ form_errors = <<>>
ColsIdle == columns = <<>> /\ missing = <<>> /\ cols_pc = "off"
ExtIdle == DateIdle /\ FormIdle /\ ColsIdle

---------------------------------------------------------------------------
(* Specification SpecBO: one call of normalize_bo on a bounded input       *)

MaxTok == 5

BOTokens ==
    { <<"7">>, <<"1", "2", "3">>, <<"1", "2", "3", "4", "5">>, <<"2", "0", "2", "4">>,
      <<"-">>, <<"/">>, <<" ">>, <<"B">> }

\* leading text before the number proper: nothing, or a stray digit group
BOPrefixes == { <<>>, <<"9", "/">> }

InitBO ==
    /\ \/ bo \in {None, NaN}
       \/ \E n \in 0..MaxTok : \E t \in [1..n -> BOTokens] : \E p \in BOPrefixes :
              bo = Str(p \o Flatten(t))
    /\ bo_norm = Unset
    /\ PipeIdle /\ FetchIdle /\ JoinIdle /\ ExtIdle

CallNormalizeBO ==
    /\ bo_norm = Unset
    /\ bo_norm' = normalize_bo(bo)
    /\ UNCHANGED <<bo, pipe_vars, fetch_vars, join_vars, ext_vars>>

NextBO == CallNormalizeBO

SpecBO == InitBO /\ [][NextBO]_vars

---------------------------------------------------------------------------
(* Properties of normalize_bo                                              *)

\* positions where a maximal digit run of s begins
RunStarts(s) == { i \in 1..Len(s) : s[i] \in Digits /\ (i = 1 \/ s[i - 1] \notin Digits) }

\* the maximal digit run of s that begins at position i
RunAt(s, i) ==
    LET j == CHOOSE e \in i..Len(s) :
                 AllDigits(s, i, e) /\ (e = Len(s) \/ s[e + 1] \notin Digits)
    IN  SubSeq(s, i, j)

\* the n-th digit run of s counted from the right (1 = last)
NthLastRun(s, n) ==
    LET i == CHOOSE p \in RunStarts(s) :
                 Cardinality({ q \in RunStarts(s) : q > p }) = n - 1
    IN  RunAt(s, i)

\* out is run cut to its rightmost n digits, or left-padded with zeros to n
PaddedRight(out, run, n) ==
    /\ Len(out) = n
    /\ IF Len(run) >= n
       THEN out = SubSeq(run, Len(run) - n + 1, Len(run))
       ELSE /\ \A i \in 1..(n - Len(run)) : out[i] = "0"
            /\ SubSeq(out, n - Len(run) + 1, n) = run

BOStripped == KeepBOChars(PyStr(bo))

\* C1 as stated: normalize_bo returns null or a string of the form
\* 3 digits, dash, 5 digits, slash, 4 digits.
C1_PatternOrNull ==
    bo_norm # Unset =>
        \/ bo_norm = None
        \/ bo_norm.k = "str" /\ MatchesBOPattern(bo_norm.s)

\* C1 amended: normalize_bo returns null, or a string of the canonical form,
\* or, when the stripped input holds fewer than three digit runs, the
\* non-empty stripped input itself.
C1_PatternNullOrStripped ==
    bo_norm # Unset =>
        \/ bo_norm = None
        \/ bo_norm.k = "str" /\ MatchesBOPattern(bo_norm.s)
        \/ /\ ~isna(bo)
           /\ bo_norm = Str(BOStripped)
           /\ BOStripped # <<>>
           /\ Cardinality(RunStarts(BOStripped)) < 3

C1_Witness ==
    /\ bo_norm.k = "str"
    /\ MatchesBOPattern(bo_norm.s)
    /\ bo_norm.s # BOStripped
    /\ Cardinality(RunStarts(BOStripped)) >= 3
    /\ Len(NthLastRun(BOStripped, 3)) > 3

\* C2: when the stripped input is not already canonical and holds at least
\* three digit runs, the result is A-B/C with A, B, C the third-from-last,
\* second-from-last and last run, each cut to its rightmost 3, 5, 4 digits
\* or left-padded with zeros to that width; earlier runs are ignored.
C2_LastThreeRuns ==
    (/\ bo_norm # Unset
     /\ ~isna(bo)
     /\ ~MatchesBOPattern(BOStripped)
     /\ Cardinality(RunStarts(BOStripped)) >= 3)
    => /\ bo_norm.k = "str"
       /\ Len(bo_norm.s) = 14
       /\ PaddedRight(SubSeq(bo_norm.s, 1, 3), NthLastRun(BOStripped, 3), 3)
       /\ bo_norm.s[4] = "-"
       /\ PaddedRight(SubSeq(bo_norm.s, 5, 9), NthLastRun(BOStripped, 2), 5)
       /\ bo_norm.s[10] = "/"
       /\ PaddedRight(SubSeq(bo_norm.s, 11, 14), NthLastRun(BOStripped, 1), 4)

C2_Witness ==
    /\ bo_norm.k = "str"
    /\ ~isna(bo)
    /\ ~MatchesBOPattern(BOStripped)
    /\ Cardinality(RunStarts(BOStripped)) >= 4
    /\ Len(NthLastRun(BOStripped, 3)) < 3
    /\ Len(NthLastRun(BOStripped, 1)) > 4

---------------------------------------------------------------------------
(* Text cleaning: strip_all, normalize_spaces, normalize_text              *)

\* str(s).replace("\n", " ").replace("\r", " ").strip()
strip_all(s) == strip([i \in 1..Len(s) |-> IF s[i] \in {"\n", "\r"} THEN " " ELSE s[i]])

\* re.sub(r"\s+", " ", s)
RECURSIVE CollapseSpaces(_)
CollapseSpaces(s) ==
    IF s = <<>> THEN <<>>
    ELSE IF Head(s) \in Whitespace THEN <<" ">> \o CollapseSpaces(LStrip(s))
    ELSE <<Head(s)>> \o CollapseSpaces(Tail(s))

\* re.sub(r"\s+([,.])", r"\1", s)
RECURSIVE DropSpaceBeforePunct(_)
DropSpaceBeforePunct(s) ==
    IF s = <<>> THEN <<>>
    ELSE IF /\ Head(s) \in Whitespace
            /\ LStrip(s) # <<>>
            /\ Head(LStrip(s)) \in {",", "."}
         THEN DropSpaceBeforePunct(LStrip(s))
    ELSE <<Head(s)>> \o DropSpaceBeforePunct(Tail(s))

normalize_spaces(s) == strip(DropSpaceBeforePunct(CollapseSpaces(s)))

normalize_text(v) == IF isna(v) THEN v ELSE Str(normalize_spaces(strip_all(PyStr(v))))

---------------------------------------------------------------------------
(* google_maps_link                                                        *)

\* Python truth value of a cell: None and "" are false, float nan is true
Truthy(v) == v.k = "NaN" \/ (v.k = "str" /\ v.s # <<>>)

\* ", ".join(parts)
RECURSIVE JoinComma(_)
JoinComma(parts) ==
    IF parts = <<>> THEN <<>>
    ELSE IF Len(parts) = 1 THEN parts[1]
    ELSE parts[1] \o <<",", " ">> \o JoinComma(Tail(parts))

\* q.replace(' ', '+')
SpacesToPlus(s) == [i \in 1..Len(s) |-> IF s[i] = " " THEN "+" ELSE s[i]]

MapsPrefix == <<"https://www.google.com/maps/search/?api=1&query=">>

google_maps_link(endereco, bairro, cidade) ==
    LET parts == <<PyStr(endereco)>>
                 \o (IF Truthy(bairro) THEN <<PyStr(bairro)>> ELSE <<>>)
                 \o (IF Truthy(cidade) THEN <<PyStr(cidade)>> ELSE <<>>)
        kept == SelectSeq(parts, LAMBDA p : p # <<>> /\ strip(p) # <<>>)
    IN  Str(MapsPrefix \o SpacesToPlus(JoinComma(kept)))

---------------------------------------------------------------------------
(* Duplicate flags: pandas Series.duplicated                               *)

\* Series.duplicated(): keep="first", marks every occurrence but the first
DuplicatedKeepFirst(col) == [i \in 1..Len(col) |-> \E j \in 1..(i - 1) : col[j] = col[i]]

\* Series.duplicated(keep=False): marks every member of a repeated value
DuplicatedKeepFalse(col) ==
    [i \in 1..Len(col) |-> Cardinality({ j \in 1..Len(col) : col[j] = col[i] }) > 1]

NAFill == <<"_", "_", "N", "A", "_", "_">>

\* df["BO_Numero_Normalizado"].fillna("__NA__").astype(str)
BoTmp(frame) ==
    [i \in 1..Len(frame) |->
        IF isna(frame[i].BO_Numero_Normalizado) THEN NAFill
        ELSE PyStr(frame[i].BO_Numero_Normalizado)]

\* bo_tmp.duplicated(keep=False), without the mask of the filled nulls
DuplicadoBONoMask(frame) == DuplicatedKeepFalse(BoTmp(frame))

\* bo_tmp.duplicated(keep=False) & (bo_tmp != "__NA__")
DuplicadoBO(frame) ==
    [i \in 1..Len(frame) |-> DuplicatedKeepFalse(BoTmp(frame))[i] /\ BoTmp(frame)[i] # NAFill]

\* df["ID_Chamado"].astype(str).duplicated(keep=False)
DuplicadoID(frame) == DuplicatedKeepFalse([i \in 1..Len(frame) |-> PyStr(frame[i].ID_Chamado)])

---------------------------------------------------------------------------
(* Specification SpecPipe: cleaning and enrichment of a loaded frame       *)

MaxRows == 3

Row(id, b, e, ba, c) ==
    [ID_Chamado |-> id, BO_Numero |-> b, Endereco |-> e, Bairro |-> ba, Cidade |-> c]

IDCells == { Str(<<"A", "1">>), Str(<<"B", "2">>), Str(<<"n", "a", "n">>), NaN }

BOCells ==
    { NaN, Str(<<"s", "/", "n">>), Str(<<"x">>),
      Str(<<"1", "-", "2", "/", "3">>),
      Str(<<"0", "0", "1", "-", "0", "0", "0", "0", "2", "/", " ", "0", "0", "0", "3">>) }

EnderecoCells == { None, NaN, Str(<<" ">>), Str(<<"R", " ", " ", "A">>) }
BairroCells == { None, NaN, Str(<<" ">>), Str(<<"B">>) }
CidadeCells == { None, NaN, Str(<<" ">>), Str(<<"C", " ", "D", " ">>) }

InitPipe ==
    /\ df_pc = "raw"
    /\ \/ \E n \in 0..MaxRows : \E ids \in [1..n -> IDCells] : \E bos \in [1..n -> BOCells] :
              df = [i \in 1..n |->
                       Row(ids[i], bos[i], Str(<<"R", " ", "A">>), Str(<<"B">>), Str(<<"C">>))]
       \/ \E e \in EnderecoCells : \E ba \in BairroCells : \E c \in CidadeCells :
              df = <<Row(Str(<<"A", "1">>), NaN, e, ba, c)>>
    /\ BOIdle /\ FetchIdle /\ JoinIdle /\ ExtIdle

\* for c in text_cols: df[c] = df[c].apply(normalize_text)
CleanedFrame(frame) ==
    [i \in 1..Len(frame) |->
        [frame[i] EXCEPT !.Endereco = normalize_text(@),
                         !.Bairro = normalize_text(@),
                         !.Cidade = normalize_text(@),
                         !.BO_Numero = normalize_text(@)]]

\* df["BO_Numero_Normalizado"] = ...; df["Google_Maps"] = ...
DerivedFrame(frame) ==
    [i \in 1..Len(frame) |->
        frame[i] @@ [BO_Numero_Normalizado |-> normalize_bo(frame[i].BO_Numero),
                     Google_Maps |->
                         google_maps_link(frame[i].Endereco, frame[i].Bairro, frame[i].Cidade)]]

\* df["Duplicado_ID"] = ...; df["Duplicado_BO"] = ...
FlaggedFrame(frame) ==
    [i \in 1..Len(frame) |->
        frame[i] @@ [Duplicado_ID |-> DuplicadoID(frame)[i],
                     Duplicado_BO |-> DuplicadoBO(frame)[i]]]

CleanText ==
    /\ df_pc = "raw"
    /\ df' = CleanedFrame(df)
    /\ df_pc' = "clean"
    /\ UNCHANGED <<bo_vars, fetch_vars, join_vars, ext_vars>>

DeriveColumns ==
    /\ df_pc = "clean"
    /\ df' = DerivedFrame(df)
    /\ df_pc' = "derived"
    /\ UNCHANGED <<bo_vars, fetch_vars, join_vars, ext_vars>>

FlagDuplicates ==
    /\ df_pc = "derived"
    /\ df' = FlaggedFrame(df)
    /\ df_pc' = "enriched"
    /\ UNCHANGED <<bo_vars, fetch_vars, join_vars, ext_vars>>

NextPipe == CleanText \/ DeriveColumns \/ FlagDuplicates

SpecPipe == InitPipe /\ [][NextPipe]_vars

---------------------------------------------------------------------------
(* Properties of the enriched frame                                        *)

Rows == 1..Len(df)

\* C3: Duplicado_ID of a record is true exactly when another record of the
\* frame has the same identifier compared as text; every member of such a
\* group is flagged, the first occurrence included, and a unique identifier
\* is flagged false.
C3_DuplicadoIDSymmetric ==
    df_pc = "enriched" =>
        \A i \in Rows :
            df[i].Duplicado_ID <=>
                \E j \in Rows \ {i} : PyStr(df[j].ID_Chamado) = PyStr(df[i].ID_Chamado)

C3_Witness ==
    /\ df_pc = "enriched"
    /\ \E i, j, u \in Rows :
        /\ i < j
        /\ PyStr(df[i].ID_Chamado) = PyStr(df[j].ID_Chamado)
        /\ df[i].Duplicado_ID /\ df[j].Duplicado_ID
        /\ ~df[u].Duplicado_ID

\* C4: a record whose normalized report number is null has Duplicado_BO
\* false, however many other records are null too; a record with a non-null
\* normalized report number is flagged exactly when another record has the
\* same non-null normalized report number.
C4_DuplicadoBONullsExcluded ==
    df_pc = "enriched" =>
        \A i \in Rows :
            IF isna(df[i].BO_Numero_Normalizado)
            THEN ~df[i].Duplicado_BO
            ELSE df[i].Duplicado_BO <=>
                     \E j \in Rows \ {i} :
                         /\ ~isna(df[j].BO_Numero_Normalizado)
                         /\ df[j].BO_Numero_Normalizado = df[i].BO_Numero_Normalizado

C4_Witness ==
    /\ df_pc = "enriched"
    /\ \E i, j, u \in Rows :
        /\ i # j
        /\ df[i].BO_Numero # df[j].BO_Numero
        /\ df[i].BO_Numero_Normalizado = df[j].BO_Numero_Normalizado
        /\ isna(df[u].BO_Numero_Normalizado)
    /\ \E i, j \in Rows :
        /\ i # j
        /\ df[i].BO_Numero # df[j].BO_Numero
        /\ ~isna(df[i].BO_Numero_Normalizado)
        /\ df[i].BO_Numero_Normalizado = df[j].BO_Numero_Normalizado
        /\ df[i].Duplicado_BO /\ df[j].Duplicado_BO

\* the texts of those of address, neighborhood and city that are present
\* (neither None nor NaN) and not blank, in that order
PresentFields(r) ==
    LET cells == SelectSeq(<<r.Endereco, r.Bairro, r.Cidade>>,
                           LAMBDA v : ~isna(v) /\ strip(v.s) # <<>>)
    IN  [i \in 1..Len(cells) |-> cells[i].s]

\* C5: the map link of every record is non-null and its query is the
\* comma-joined list of exactly the present, non-empty address,
\* neighborhood and city fields, spaces encoded as '+'; a missing or blank
\* field contributes no text.
C5_MapLinkOnlyPresentFields ==
    df_pc \in {"derived", "enriched"} =>
        \A i \in Rows :
            /\ df[i].Google_Maps.k = "str"
            /\ df[i].Google_Maps.s = MapsPrefix \o SpacesToPlus(JoinComma(PresentFields(df[i])))

---------------------------------------------------------------------------
(* load_geojson_municipios: the memoized fetch with its fallback chain     *)

UFLabels == {"RJ", "ES"}
uf_label_to_code(label) == IF label = "RJ" THEN "33" ELSE "32"
UFCodes == { uf_label_to_code(l) : l \in UFLabels }

\* the script calls load_geojson_municipios(uf_code): allow_insecure keeps its default
allow_insecure == FALSE

NoEntry == [src |-> "absent", uf |-> ""]
NoGJ == [src |-> "None", uf |-> ""]

\* r.json() of a successful request to source src for uf_code
Body(src, uf_code) == [src |-> src, uf |-> uf_code]

\* the statistics-agency API first, then the two mirrors
AttemptPlanIbgeFirst(uf_code, insecure) ==
    << [src |-> "ibge", uf |-> uf_code, verify |-> TRUE],
       [src |-> "jsdelivr", uf |-> uf_code, verify |-> TRUE],
       [src |-> "github_raw", uf |-> uf_code, verify |-> TRUE] >>

\* the requests of one call, in the order the function issues them
AttemptPlan(uf_code, insecure) ==
    << [src |-> "jsdelivr", uf |-> uf_code, verify |-> TRUE],
       [src |-> "github_raw", uf |-> uf_code, verify |-> TRUE],
       [src |-> "ibge", uf |-> uf_code, verify |-> TRUE] >>
    \o (IF insecure
        THEN << [src |-> "jsdelivr", uf |-> uf_code, verify |-> FALSE],
                [src |-> "github_raw", uf |-> uf_code, verify |-> FALSE],
                [src |-> "ibge", uf |-> uf_code, verify |-> FALSE] >>
        ELSE <<>>)

\* requests.get raises, raise_for_status raises, r.json() raises
Failures == {"network", "status", "json"}

\* the constant message of line 179, written without its diacritics; it
\* interpolates nothing
RuntimeErrorText ==
    <<"Nao foi possivel carregar o GeoJSON de municipios desta UF pelas fontes disponiveis.">>

RuntimeError == [type |-> "RuntimeError", text |-> RuntimeErrorText]

\* st.warning of the unverified retries (the leading symbol left out)
SSLWarning ==
    [kind |-> "warning",
     text |-> <<"SSL desativado para baixar o GeoJSON (use apenas para teste).">>]

\* st.error with the exception text only
FalhaMsgNoLabel(label, e) ==
    [kind |-> "error", text |-> <<"Falha ao carregar GeoJSON da UF ", ": ">> \o e.text]

\* st.error(f"Falha ao carregar GeoJSON da UF {uf_escolhida}: {e}")
FalhaMsg(label, e) ==
    [kind |-> "error", text |-> <<"Falha ao carregar GeoJSON da UF ", label, ": ">> \o e.text]

\* a function that is not memoized: every call runs its body
CacheLookupNever(entries, uf_code) == NoEntry

\* st.cache_data: the entry stored for the call's arguments, if any
CacheLookup(entries, uf_code) == entries[uf_code]

---------------------------------------------------------------------------
(* Specification SpecFetch: the map section over the reruns of a session   *)

MaxReruns == 3

InitFetch ==
    /\ cache = [c \in UFCodes |-> NoEntry]
    /\ reruns = 0
    /\ uf_escolhida = "RJ"
    /\ fetch_pc = "idle"
    /\ attempts = <<>>
    /\ gj = NoGJ
    /\ raised = <<>>
    /\ st_msgs = <<>>
    /\ net_requests = [c \in UFCodes |-> 0]
    /\ chain_runs = [c \in UFCodes |-> 0]
    /\ BOIdle /\ PipeIdle /\ JoinIdle /\ ExtIdle

\* a script run reaches the map section with a UF selected and the call is
\* answered from the cache
CallCached(label) ==
    /\ fetch_pc \in {"idle", "shown"}
    /\ reruns < MaxReruns
    /\ CacheLookup(cache, uf_label_to_code(label)) # NoEntry
    /\ reruns' = reruns + 1
    /\ uf_escolhida' = label
    /\ attempts' = <<>>
    /\ raised' = <<>>
    /\ st_msgs' = <<>>
    /\ gj' = CacheLookup(cache, uf_label_to_code(label))
    /\ fetch_pc' = "shown"
    /\ UNCHANGED <<cache, net_requests, chain_runs, bo_vars, pipe_vars, join_vars, ext_vars>>

\* a script run reaches the map section and the call runs the function body
CallUncached(label) ==
    /\ fetch_pc \in {"idle", "shown"}
    /\ reruns < MaxReruns
    /\ CacheLookup(cache, uf_label_to_code(label)) = NoEntry
    /\ reruns' = reruns + 1
    /\ uf_escolhida' = label
    /\ attempts' = <<>>
    /\ raised' = <<>>
    /\ st_msgs' = <<>>
    /\ gj' = NoGJ
    /\ chain_runs' = [chain_runs EXCEPT ![uf_label_to_code(label)] = @ + 1]
    /\ fetch_pc' = "fetching"
    /\ UNCHANGED <<cache, net_requests, bo_vars, pipe_vars, join_vars, ext_vars>>

uf_code == uf_label_to_code(uf_escolhida)
Plan == AttemptPlan(uf_code, allow_insecure)

\* the next request fails: the except clause swallows it; after the last
\* request of the plan the function raises and the script reports it
AttemptFails(how) ==
    /\ fetch_pc = "fetching"
    /\ Len(attempts) < Len(Plan)
    /\ attempts' = Append(attempts, Plan[Len(attempts) + 1] @@ [outcome |-> how])
    /\ net_requests' = [net_requests EXCEPT ![uf_code] = @ + 1]
    /\ IF Len(attempts) + 1 = Len(Plan)
       THEN /\ raised' = Append(raised, RuntimeError)
            /\ st_msgs' = Append(st_msgs, FalhaMsg(uf_escolhida, RuntimeError))
            /\ fetch_pc' = "shown"
       ELSE UNCHANGED <<raised, st_msgs, fetch_pc>>
    /\ UNCHANGED <<cache, reruns, uf_escolhida, gj, chain_runs, bo_vars, pipe_vars, join_vars, ext_vars>>

\* the next request succeeds: the function returns r.json(), which
\* st.cache_data stores for the arguments of the call
AttemptSucceeds ==
    /\ fetch_pc = "fetching"
    /\ Len(attempts) < Len(Plan)
    /\ LET req == Plan[Len(attempts) + 1]
       IN  /\ attempts' = Append(attempts, req @@ [outcome |-> "ok"])
           /\ st_msgs' = IF req.verify THEN st_msgs ELSE Append(st_msgs, SSLWarning)
           /\ cache' = [cache EXCEPT ![uf_code] = Body(req.src, req.uf)]
           /\ gj' = Body(req.src, req.uf)
    /\ net_requests' = [net_requests EXCEPT ![uf_code] = @ + 1]
    /\ fetch_pc' = "shown"
    /\ UNCHANGED <<reruns, uf_escolhida, raised, chain_runs, bo_vars, pipe_vars, join_vars, ext_vars>>

NextFetch ==
    \/ \E label \in UFLabels : CallCached(label)
    \/ \E label \in UFLabels : CallUncached(label)
    \/ \E how \in Failures : AttemptFails(how)
    \/ AttemptSucceeds

SpecFetch == InitFetch /\ [][NextFetch]_vars

---------------------------------------------------------------------------
(* Properties of the boundary fetch                                        *)

SourceOrder == <<"jsdelivr", "github_raw", "ibge">>

AllFailed == Len(attempts) = Len(SourceOrder) /\ \A i \in 1..Len(attempts) : attempts[i].outcome # "ok"

\* C6: within one call the sources are tried in the order CDN mirror 1,
\* CDN mirror 2, statistics-agency API, all with verification; a source is
\* tried only if every earlier attempt of the call failed; a failure of any
\* kind leads to the next attempt and not to an error; the call returns the
\* body of the first attempt that succeeds and makes no attempt after it.
C6_OrderedFallback ==
    /\ Len(attempts) <= Len(SourceOrder)
    /\ \A i \in 1..Len(attempts) :
        /\ attempts[i].src = SourceOrder[i]
        /\ attempts[i].uf = uf_label_to_code(uf_escolhida)
        /\ attempts[i].verify
        /\ \A j \in 1..(i - 1) : attempts[j].outcome # "ok"
    /\ (fetch_pc = "fetching") <=>
           (/\ reruns > 0
            /\ CacheLookup(cache, uf_label_to_code(uf_escolhida)) = NoEntry
            /\ Len(attempts) < Len(SourceOrder)
            /\ \A i \in 1..Len(attempts) : attempts[i].outcome # "ok")
    /\ raised # <<>> => AllFailed
    /\ (attempts # <<>> /\ attempts[Len(attempts)].outcome = "ok") =>
           /\ fetch_pc = "shown"
           /\ gj = Body(attempts[Len(attempts)].src, attempts[Len(attempts)].uf)

C6_Witness ==
    /\ Len(attempts) = 3
    /\ attempts[1].outcome = "network"
    /\ attempts[2].outcome = "json"
    /\ attempts[3].outcome = "ok"
    /\ gj = Body("ibge", "32")

\* the text names x
Names(text, x) == \E i \in 1..Len(text) : text[i] = x

ErrorsShown == SelectSeq(st_msgs, LAMBDA m : m.kind = "error")

\* C7 as stated: if every source fails, the call fails with exactly one
\* error, and that error names the region code requested.
C7_ErrorNamesRegionCode ==
    (fetch_pc = "shown" /\ AllFailed) =>
        /\ Len(raised) = 1
        /\ Names(raised[1].text, uf_label_to_code(uf_escolhida))

\* C7 amended: if every source fails, the call fails with exactly one
\* error, whose text is fixed and names neither the region code nor the UF;
\* the script shows exactly one error message, which names the selected UF
\* label and carries the text of that error.
C7_OneErrorScriptNamesUF ==
    (fetch_pc = "shown" /\ AllFailed) =>
        /\ Len(raised) = 1
        /\ \A c \in UFCodes : ~Names(raised[1].text, c)
        /\ \A l \in UFLabels : ~Names(raised[1].text, l)
        /\ Len(ErrorsShown) = 1
        /\ Names(ErrorsShown[1].text, uf_escolhida)
        /\ ~Names(ErrorsShown[1].text, uf_label_to_code(uf_escolhida))
        /\ \A i \in 1..Len(raised[1].text) : Names(ErrorsShown[1].text, raised[1].text[i])
        /\ gj = NoGJ

C7_Witness ==
    /\ fetch_pc = "shown"
    /\ AllFailed
    /\ uf_escolhida = "ES"
    /\ { attempts[i].outcome : i \in 1..Len(attempts) } = Failures

\* C8 as stated: the fallback chain runs at most once per region code in a
\* session.
C8_ChainAtMostOncePerCode == \A c \in UFCodes : chain_runs[c] <= 1

\* C8 amended: once a call for a region code has succeeded, every later
\* call with that code is answered from the cache without a request or a run
\* of the chain, and the entry is never changed or removed; a call in which
\* every source fails stores nothing, so the next call for that code runs
\* the chain again.
C8_FetchedOnceAfterSuccess ==
    [][\A c \in UFCodes :
          /\ cache[c] # NoEntry =>
                 /\ cache'[c] = cache[c]
                 /\ net_requests'[c] = net_requests[c]
                 /\ chain_runs'[c] = chain_runs[c]
          /\ (fetch_pc = "fetching" /\ fetch_pc' = "shown" /\ raised' # <<>>) =>
                 cache' = cache
          /\ (cache[c] = NoEntry /\ reruns' = reruns + 1 /\ uf_label_to_code(uf_escolhida') = c) =>
                 chain_runs'[c] = chain_runs[c] + 1]_vars

C8_Witness ==
    /\ fetch_pc = "shown"
    /\ reruns = 3
    /\ attempts = <<>>
    /\ gj # NoGJ
    /\ chain_runs[uf_label_to_code(uf_escolhida)] = 2
    /\ net_requests[uf_label_to_code(uf_escolhida)] = 5

---------------------------------------------------------------------------
(* City names: strip_accents, norm_city_name, CITY_FIX, apply_city_fix     *)
(* A character outside ASCII is written by its code point: "U+00F3" is o   *)
(* with acute, "U+0301" the combining acute accent.                        *)

\* unicodedata.normalize('NFD', c) of one character
Decompose(c) ==
    CASE c = "U+00E3" -> <<"a", "U+0303">>
      [] c = "U+00F3" -> <<"o", "U+0301">>
      [] c = "U+00E9" -> <<"e", "U+0301">>
      [] c = "U+00E7" -> <<"c", "U+0327">>
      [] OTHER -> <<c>>

\* characters of category Mn
NonspacingMarks == {"U+0301", "U+0303", "U+0327"}

strip_accents(s) ==
    SelectSeq(Flatten([i \in 1..Len(s) |-> Decompose(s[i])]), LAMBDA c : c \notin NonspacingMarks)

LowerCase ==
    <<"a", "b", "c", "d", "e", "f", "g", "h", "i", "j", "k", "l", "m",
      "n", "o", "p", "q", "r", "s", "t", "u", "v", "w", "x", "y", "z">>
UpperCase ==
    <<"A", "B", "C", "D", "E", "F", "G", "H", "I", "J", "K", "L", "M",
      "N", "O", "P", "Q", "R", "S", "T", "U", "V", "W", "X", "Y", "Z">>

UpperChar(c) ==
    IF \E i \in 1..Len(LowerCase) : LowerCase[i] = c
    THEN UpperCase[CHOOSE i \in 1..Len(LowerCase) : LowerCase[i] = c]
    ELSE c

\* str.upper()
upper(s) == [i \in 1..Len(s) |-> UpperChar(s[i])]

norm_city_name(v) == IF isna(v) THEN <<>> ELSE strip(upper(strip_accents(PyStr(v))))

CITY_FIX ==
    { <<<<"S", "A", "O", " ", "J", "O", "A", "O", " ", "D", "E", " ", "M", "E", "R", "I", "T">>,
        <<"S", "A", "O", " ", "J", "O", "A", "O", " ", "D", "E", " ", "M", "E", "R", "I", "T", "I">>>>,
      <<<<"D", "U", "Q", "U", "E", " ", "D", "E", " ", "C", "A", "X", "I", "A">>,
        <<"D", "U", "Q", "U", "E", " ", "D", "E", " ", "C", "A", "X", "I", "A", "S">>>>,
      <<<<"R", "I", "O", " ", "D", "E", " ", "J", "A", "N", "E", "I", "R", "O", "-">>,
        <<"R", "I", "O", " ", "D", "E", " ", "J", "A", "N", "E", "I", "R", "O">>>> }

\* CITY_FIX.get(base, s): the default is the raw cell text, not its normal form
apply_city_fix_raw_default(v) ==
    LET base == norm_city_name(v)
    IN  IF \E e \in CITY_FIX : e[1] = base
        THEN (CHOOSE e \in CITY_FIX : e[1] = base)[2]
        ELSE PyStr(v)

\* CITY_FIX.get(base, base)
apply_city_fix(v) ==
    LET base == norm_city_name(v)
    IN  IF \E e \in CITY_FIX : e[1] = base
        THEN (CHOOSE e \in CITY_FIX : e[1] = base)[2]
        ELSE base

---------------------------------------------------------------------------
(* The map aggregation: city_counts, muni_df, joined, nao_casaram          *)

\* a or b
PyOr(a, b) == IF Truthy(a) THEN a ELSE b

\* fdf.assign(Cidade_norm=...).groupby("Cidade_norm").size().reset_index(name="Qtde")
GroupCounts(cities) ==
    { [Cidade_norm |-> k,
       Qtde |-> Cardinality({ j \in 1..Len(cities) : apply_city_fix(cities[j]) = k })] :
      k \in { apply_city_fix(cities[j]) : j \in 1..Len(cities) } }

\* one row of muni_df, with its Cidade_norm; a feature is written flat, the
\* fields of its "properties" beside its own "id"
MuniRow(ft) ==
    LET nm == PyOr(PyOr(ft.name, ft.NM_MUNICIPIO), ft.name_muni)
    IN  [id |-> PyOr(PyOr(ft.id, ft.pid), ft.pcode),
         NM_MUN |-> nm,
         Cidade_norm |-> norm_city_name(nm)]

\* the rows of the right frame whose key is k
Matching(right, k) == { c \in right : c.Cidade_norm = k }

\* muni_df.merge(city_counts, on="Cidade_norm", how="inner")
InnerMerge(left, right) ==
    LET hit == SelectSeq(left, LAMBDA m : Matching(right, m.Cidade_norm) # {})
    IN  [i \in 1..Len(hit) |->
            hit[i] @@ [Qtde |-> (CHOOSE c \in Matching(right, hit[i].Cidade_norm) : TRUE).Qtde]]

\* muni_df.merge(city_counts, on="Cidade_norm", how="left").fillna({"Qtde": 0});
\* the keys of city_counts are unique, so a left row meets at most one right row
LeftMergeFillna(left, right) ==
    [i \in 1..Len(left) |->
        left[i] @@
        [Qtde |-> IF Matching(right, left[i].Cidade_norm) = {} THEN 0
                  ELSE (CHOOSE c \in Matching(right, left[i].Cidade_norm) : TRUE).Qtde]]

---------------------------------------------------------------------------
(* Specification SpecJoin: the aggregation of one script run                *)

MaxRec == 3
MaxFeat == 2

Feature(id, pid, pcode, name, nm_municipio, name_muni) ==
    [id |-> id, pid |-> pid, pcode |-> pcode,
     name |-> name, NM_MUNICIPIO |-> nm_municipio, name_muni |-> name_muni]

FeatureSet ==
    { Feature(Str(<<"3301702">>), None, None, Str(<<"D", "u", "q", "u", "e", " ", "d", "e", " ", "C", "a", "x", "i", "a", "s">>), None, None),
      Feature(None, None, Str(<<"3303302">>), None, Str(<<"N", "i", "t", "e", "r", "U+00F3", "i">>), None),
      Feature(Str(<<"9999999">>), None, None, Str(<<"D", "u", "q", "u", "e", " ", "d", "e", " ", "C", "a", "x", "i", "a">>), None, None),
      Feature(None, None, None, None, None, None) }

CityCells ==
    { NaN, Str(<<"D", "u", "q", "u", "e", " ", "d", "e", " ", "C", "a", "x", "i", "a">>), Str(<<"N", "i", "t", "e", "r", "U+00F3", "i">>), Str(<<"M", "a", "c", "a", "U+00E9">>) }

InitJoin ==
    /\ join_pc = "start"
    /\ \E n \in 0..MaxRec : fdf \in [1..n -> CityCells]
    /\ \E n \in 0..MaxFeat : features \in [1..n -> FeatureSet]
    /\ city_counts = {}
    /\ muni_df = <<>>
    /\ joined = <<>>
    /\ nao_casaram = {}
    /\ BOIdle /\ PipeIdle /\ FetchIdle /\ ExtIdle

\* city_counts = ...
GroupCities ==
    /\ join_pc = "start"
    /\ city_counts' = GroupCounts(fdf)
    /\ join_pc' = "counted"
    /\ UNCHANGED <<fdf, features, muni_df, joined, nao_casaram, bo_vars, pipe_vars, fetch_vars, ext_vars>>

\* muni_df = pd.DataFrame([...]); muni_df["Cidade_norm"] = ...
\* With no feature the frame has no column and muni_df["NM_MUN"] raises KeyError.
ExtractMunicipios ==
    /\ join_pc = "counted"
    /\ IF features = <<>>
       THEN join_pc' = "KeyError" /\ UNCHANGED muni_df
       ELSE /\ muni_df' = [i \in 1..Len(features) |-> MuniRow(features[i])]
            /\ join_pc' = "extracted"
    /\ UNCHANGED <<fdf, features, city_counts, joined, nao_casaram, bo_vars, pipe_vars, fetch_vars, ext_vars>>

\* joined = ...; nao_casaram = ...
MergeCounts ==
    /\ join_pc = "extracted"
    /\ joined' = LeftMergeFillna(muni_df, city_counts)
    /\ nao_casaram' = { c.Cidade_norm : c \in city_counts }
                      \ { muni_df[i].Cidade_norm : i \in 1..Len(muni_df) }
    /\ join_pc' = "joined"
    /\ UNCHANGED <<fdf, features, city_counts, muni_df, bo_vars, pipe_vars, fetch_vars, ext_vars>>

NextJoin == GroupCities \/ ExtractMunicipios \/ MergeCounts

SpecJoin == InitJoin /\ [][NextJoin]_vars

---------------------------------------------------------------------------
(* Properties of the map aggregation                                       *)

Recs == 1..Len(fdf)
Feats == 1..Len(features)

\* the display name the script reads from feature i
DisplayName(i) == PyOr(PyOr(features[i].name, features[i].NM_MUNICIPIO), features[i].name_muni)

\* C9: the join is a left join from the boundaries: every boundary entry of
\* the feature collection is a row of the joined frame, in order, whose
\* count is the number of records of the filtered view whose reconciled
\* city name equals the boundary's canonical name, 0 when there is none.
C9_LeftJoinFromBoundaries ==
    join_pc = "joined" =>
        /\ Len(joined) = Len(features)
        /\ \A i \in Feats :
            /\ joined[i].NM_MUN = DisplayName(i)
            /\ joined[i].id = muni_df[i].id
            /\ joined[i].Cidade_norm = muni_df[i].Cidade_norm
            /\ joined[i].Qtde =
                   Cardinality({ j \in Recs : apply_city_fix(fdf[j]) = joined[i].Cidade_norm })

C9_Witness ==
    /\ join_pc = "joined"
    /\ Len(joined) = 2
    /\ joined[1].Qtde = 0
    /\ joined[2].Qtde = 2
    /\ joined[2].NM_MUN.k = "str"
    /\ nao_casaram # {}

\* records of the filtered view that carry the raw name v
Carrying(v) == { j \in Recs : fdf[j] = v }

\* C10 as stated: the boundary-side key of every raw name equals the
\* record-side key, so a record and a boundary entry carrying the same raw
\* name always match.
C10_SameKeyBothSides ==
    join_pc = "joined" =>
        \A i \in Feats :
            Carrying(DisplayName(i)) # {} =>
                /\ muni_df[i].Cidade_norm \in { c.Cidade_norm : c \in city_counts }
                /\ joined[i].Qtde >= Cardinality(Carrying(DisplayName(i)))

\* C10 amended: the boundary-side key is the normal form of the display
\* name (diacritics stripped, upper-cased, trimmed) without the correction
\* table; for every raw name whose normal form is not a key of the
\* correction table the two keys are equal and a record and a boundary entry
\* carrying that name match.
C10_SameKeyUnlessCorrected ==
    join_pc = "joined" =>
        \A i \in Feats :
            (/\ Carrying(DisplayName(i)) # {}
             /\ \A e \in CITY_FIX : e[1] # muni_df[i].Cidade_norm) =>
                /\ muni_df[i].Cidade_norm \in { c.Cidade_norm : c \in city_counts }
                /\ joined[i].Qtde >= Cardinality(Carrying(DisplayName(i)))

C10_Witness ==
    /\ join_pc = "joined"
    /\ \E i \in Feats :
        /\ DisplayName(i).k = "str"
        /\ Cardinality(Carrying(DisplayName(i))) = 2
        /\ muni_df[i].Cidade_norm # DisplayName(i).s
        /\ \A e \in CITY_FIX : e[1] # muni_df[i].Cidade_norm
        /\ joined[i].Qtde = 2

---------------------------------------------------------------------------
(* try_parse_date_any                                                      *)

DigitSeq == <<"0", "1", "2", "3", "4", "5", "6", "7", "8", "9">>
DigitVal(c) == (CHOOSE i \in 1..Len(DigitSeq) : DigitSeq[i] = c) - 1

\* int(text) of a run of digits, leading blanks ignored
RECURSIVE ToInt(_)
ToInt(s) ==
    IF s = <<>> THEN 0
    ELSE IF s[Len(s)] \in Digits
         THEN ToInt(SubSeq(s, 1, Len(s) - 1)) * 10 + DigitVal(s[Len(s)])
         ELSE ToInt(SubSeq(s, 1, Len(s) - 1))

Date(y, m, d) == [k |-> "date", s |-> <<y, m, d>>]
Timestamp(y, m, d) == [k |-> "Timestamp", s |-> <<y, m, d>>]
ValueError == [k |-> "ValueError", s |-> <<>>]

IsLeap(y) == (y % 4 = 0 /\ y % 100 # 0) \/ y % 400 = 0

DaysIn(m, y) ==
    IF m \in {4, 6, 9, 11} THEN 30
    ELSE IF m = 2 THEN (IF IsLeap(y) THEN 29 ELSE 28)
    ELSE 31

\* datetime(y, m, d) accepts the triple
ValidDate(y, m, d) ==
    /\ y >= 1 /\ y <= 9999
    /\ m >= 1 /\ m <= 12
    /\ d >= 1 /\ d <= DaysIn(m, y)

Directives == {"%d", "%m", "%Y"}

At(s, i, set) == i <= Len(s) /\ s[i] \in set

\* the alternatives of a directive's pattern in _strptime, in order, as the
\* number of characters each takes at the start of s when it matches there:
\*   %d  3[0-1] | [1-2]\d | 0[1-9] | [1-9] | " "[1-9]
\*   %m  1[0-2] | 0[1-9] | [1-9]
\*   %Y  \d\d\d\d
DirectiveTakes(dir, s) ==
    LET nz == Digits \ {"0"}
        alts ==
            IF dir = "%d"
            THEN << [n |-> 2, ok |-> At(s, 1, {"3"}) /\ At(s, 2, {"0", "1"})],
                    [n |-> 2, ok |-> At(s, 1, {"1", "2"}) /\ At(s, 2, Digits)],
                    [n |-> 2, ok |-> At(s, 1, {"0"}) /\ At(s, 2, nz)],
                    [n |-> 1, ok |-> At(s, 1, nz)],
                    [n |-> 2, ok |-> At(s, 1, {" "}) /\ At(s, 2, nz)] >>
            ELSE IF dir = "%m"
            THEN << [n |-> 2, ok |-> At(s, 1, {"1"}) /\ At(s, 2, {"0", "1", "2"})],
                    [n |-> 2, ok |-> At(s, 1, {"0"}) /\ At(s, 2, nz)],
                    [n |-> 1, ok |-> At(s, 1, nz)] >>
            ELSE << [n |-> 4, ok |-> \A i \in 1..4 : At(s, i, Digits)] >>
        hits == SelectSeq(alts, LAMBDA a : a.ok)
    IN  [i \in 1..Len(hits) |-> hits[i].n]

\* every way the pattern of fmt matches the whole of s, best first; a match
\* is the sequence of <<directive, text>> pairs it found
RECURSIVE Matches(_, _)
Matches(fmt, s) ==
    IF fmt = <<>> THEN (IF s = <<>> THEN << <<>> >> ELSE <<>>)
    ELSE IF Head(fmt) \in Directives
         THEN LET takes == DirectiveTakes(Head(fmt), s)
              IN  Flatten([i \in 1..Len(takes) |->
                      LET rest == Matches(Tail(fmt), SubSeq(s, takes[i] + 1, Len(s)))
                      IN  [j \in 1..Len(rest) |->
                              << <<Head(fmt), SubSeq(s, 1, takes[i])>> >> \o rest[j]]])
         ELSE IF s # <<>> /\ Head(s) = Head(fmt) THEN Matches(Tail(fmt), Tail(s)) ELSE <<>>

\* the text a match found for a directive
TextOf(match, dir) == match[CHOOSE i \in 1..Len(match) : match[i][1] = dir][2]

\* datetime.strptime(s, fmt).date(), or ValueError
strptime(s, fmt) ==
    LET ms == Matches(fmt, s)
    IN  IF ms = <<>> THEN ValueError
        ELSE LET y == ToInt(TextOf(ms[1], "%Y"))
                 m == ToInt(TextOf(ms[1], "%m"))
                 d == ToInt(TextOf(ms[1], "%d"))
             IN  IF ValidDate(y, m, d) THEN Date(y, m, d) ELSE ValueError

\* month/day/year tried before day/month/year
DateFormatsMonthFirst ==
    << <<"%m", "/", "%d", "/", "%Y">>,
       <<"%d", "/", "%m", "/", "%Y">>,
       <<"%d", "-", "%m", "-", "%Y">>,
       <<"%Y", "-", "%m", "-", "%d">> >>

\* ("%d/%m/%Y", "%d-%m-%Y", "%m/%d/%Y", "%Y-%m-%d")
DateFormats ==
    << <<"%d", "/", "%m", "/", "%Y">>,
       <<"%d", "-", "%m", "-", "%Y">>,
       <<"%m", "/", "%d", "/", "%Y">>,
       <<"%Y", "-", "%m", "-", "%d">> >>

\* the loop over the explicit formats: the first that parses, else ValueError
RECURSIVE FirstParse(_, _)
FirstParse(s, fmts) ==
    IF fmts = <<>> THEN ValueError
    ELSE IF strptime(s, Head(fmts)) # ValueError THEN strptime(s, Head(fmts))
    ELSE FirstParse(s, Tail(fmts))

\* the years a run of digits can stand for in pandas' parser: itself when
\* written with four digits, a year of either century when with one or two
YearsOf(run) ==
    IF Len(run) = 4 THEN {ToInt(run)}
    ELSE IF Len(run) \in {1, 2} THEN {1900 + ToInt(run), 2000 + ToInt(run)}
    ELSE {}

\* pd.to_datetime(s, dayfirst=..., errors="coerce") for the two values of
\* dayfirst: the parser's choice among the readings of the numbers of s is
\* left open; it returns one of the calendar dates the three numbers can
\* stand for in some order, or NaT (None here) when it accepts none
PandasOutcomes(s) ==
    LET runs == findall_digits(s)
        orders == { q \in [1..3 -> 1..3] : q[1] # q[2] /\ q[1] # q[3] /\ q[2] # q[3] }
        m(q) == ToInt(runs[q[2]])
        d(q) == ToInt(runs[q[3]])
    IN  {None} \cup
        (IF Len(runs) # 3 THEN {}
         ELSE UNION { { Date(y, m(q), d(q)) :
                          y \in { z \in YearsOf(runs[q[1]]) : ValidDate(z, m(q), d(q)) } } :
                      q \in orders })

\* the values try_parse_date_any(dval) can return
try_parse_date_any(v) ==
    IF v = None \/ v = NaN THEN {None}
    ELSE IF v.k = "Timestamp" THEN {Date(v.s[1], v.s[2], v.s[3])}
    ELSE IF v.k = "date" THEN {v}
    ELSE LET s == strip(PyStr(v))
             explicit == FirstParse(s, DateFormats)
         IN  IF explicit # ValueError THEN {explicit} ELSE PandasOutcomes(s)

\* the fields and separators the inputs are written with
DateFields ==
    { <<"0", "3">>, <<"0", "4">>, <<"4">>, <<" ", "4">>, <<"1", "3">>, <<"2", "9">>,
      <<"3", "1">>, <<"0", "2">>, <<"2", "4">>, <<"2", "0", "2", "4">>,
      <<"2", "0", "2", "3">> }
DateSeps == {"/", "-"}
DatePads == { <<>>, <<" ">> }

InitDate ==
    /\ \/ dval \in {None, NaN, Date(2024, 2, 29), Timestamp(2024, 4, 3)}
       \/ \E f1 \in DateFields, f2 \in DateFields, f3 \in DateFields :
            \E s1 \in DateSeps, s2 \in DateSeps : \E pad \in DatePads :
                dval = Str(f1 \o <<s1>> \o f2 \o <<s2>> \o f3 \o pad)
    /\ date_out = Unset
    /\ BOIdle /\ PipeIdle /\ FetchIdle /\ JoinIdle /\ FormIdle /\ ColsIdle

CallParseDate ==
    /\ date_out = Unset
    /\ date_out' \in try_parse_date_any(dval)
    /\ UNCHANGED <<dval, bo_vars, pipe_vars, fetch_vars, join_vars, form_vars, cols_vars>>

NextDate == CallParseDate

SpecDate == InitDate /\ [][NextDate]_vars

\* the text of the input as the formats see it, its fields and separators
DateText == strip(PyStr(dval))

RECURSIVE SplitAt(_, _, _)
SplitAt(s, cur, acc) ==
    IF s = <<>> THEN Append(acc, cur)
    ELSE IF Head(s) \in DateSeps THEN SplitAt(Tail(s), <<>>, Append(acc, cur))
    ELSE SplitAt(Tail(s), Append(cur, Head(s)), acc)

DateParts == SplitAt(DateText, <<>>, <<>>)
DateMarks == SelectSeq(DateText, LAMBDA c : c \in DateSeps)

DigitsOnly(f) == f # <<>> /\ \A i \in 1..Len(f) : f[i] \in Digits
PlainParts == Len(DateParts) = 3 /\ \A i \in 1..3 : DigitsOnly(DateParts[i])
FourDigitYear(f) == Len(f) = 4 /\ DigitsOnly(f) /\ ToInt(f) >= 1

\* the date a reading of three digit fields as day, month and year stands
\* for, ValueError when the fields are not a calendar date written that way
Reading(dd, mm, yyyy) ==
    IF /\ Len(dd) \in {1, 2} /\ Len(mm) \in {1, 2} /\ FourDigitYear(yyyy)
       /\ ValidDate(ToInt(yyyy), ToInt(mm), ToInt(dd))
    THEN Date(ToInt(yyyy), ToInt(mm), ToInt(dd))
    ELSE ValueError

DayFirst == Reading(DateParts[1], DateParts[2], DateParts[3])
MonthFirst == Reading(DateParts[2], DateParts[1], DateParts[3])
YearFirst == Reading(DateParts[3], DateParts[2], DateParts[1])

\* the readings in the order day/month/year, day-month-year, month/day/year,
\* year-month-day, each ValueError when the separators are not its own
OrderedReadings ==
    << IF DateMarks = <<"/", "/">> THEN DayFirst ELSE ValueError,
       IF DateMarks = <<"-", "-">> THEN DayFirst ELSE ValueError,
       IF DateMarks = <<"/", "/">> THEN MonthFirst ELSE ValueError,
       IF DateMarks = <<"-", "-">> THEN YearFirst ELSE ValueError >>

FirstReading ==
    LET ok == SelectSeq(OrderedReadings, LAMBDA r : r # ValueError)
    IN  IF ok = <<>> THEN ValueError ELSE ok[1]

\* no assignment of the three numbers to day, month and year is a calendar date
NoValidReading ==
    LET n == [i \in 1..3 |-> ToInt(DateParts[i])]
    IN  /\ PlainParts
        /\ \A d \in 1..3, m \in 1..3, y \in 1..3 :
              (d # m /\ d # y /\ m # y) =>
                  \A yy \in YearsOf(DateParts[y]) : ~ValidDate(yy, n[m], n[d])

ParsedText == dval.k = "str" /\ date_out # Unset

BothInRange(a, b) == ToInt(a) \in 1..12 /\ ToInt(b) \in 1..12

C11_MonthFirstReached ==
    /\ dval = Str(<<"0", "4", "/", "1", "3", "/", "2", "0", "2", "4">>)
    /\ date_out = Date(2024, 4, 13)

---------------------------------------------------------------------------
(* Specification SpecForm: the form "novo_registro" over a loaded frame    *)

MaxExisting == 1
MaxNew == 2

\* str(n) of a natural number
RECURSIVE ToText(_)
ToText(n) == IF n < 10 THEN <<DigitSeq[n + 1]>> ELSE ToText(n \div 10) \o <<DigitSeq[(n % 10) + 1]>>

\* new_data.strftime("%d/%m/%Y"), for the years st.date_input offers
strftime(d) ==
    Str(zfill(ToText(d.s[3]), 2) \o <<"/">> \o zfill(ToText(d.s[2]), 2) \o <<"/">>
        \o zfill(ToText(d.s[1]), 4))

\* "Campo obrigatório: {k}" and "ID_Chamado já existe na planilha.", written
\* without their accents
RequiredMsg(k) == <<"Campo obrigatorio: ", k>>
DuplicateIDMsg == <<"ID_Chamado ja existe na planilha.">>

\* the dictionary required, in its order; w holds the values of the widgets
Required(w) ==
    << <<"ID_Chamado", w.new_id>>, <<"Data", w.new_data>>,
       <<"Tipo_Cliente", w.new_tipo_cli>>, <<"Nome_Cliente", w.new_nome>>,
       <<"Endereco", w.new_end>>, <<"Bairro", w.new_bairro>>,
       <<"Cidade", w.new_cidade>>, <<"Tipo_Impedimento", w.new_imp>> >>

\* str(v) of a form value: a date prints as text that is never blank
FormStr(v) == IF v.k = "date" THEN strftime(v).s ELSE PyStr(v)

\* errors, as the handler collects them
FormErrors(required, new_id, frame) ==
    LET blank == SelectSeq(required, LAMBDA kv : strip(FormStr(kv[2])) = <<>>)
    IN  [i \in 1..Len(blank) |-> RequiredMsg(blank[i][1])]
        \o (IF \E i \in 1..Len(frame) : strip(PyStr(new_id)) = PyStr(frame[i].ID_Chamado)
            THEN <<DuplicateIDMsg>> ELSE <<>>)

\* the dictionary new_row
NewRow(w) ==
    [ID_Chamado |-> w.new_id,
     Data |-> strftime(w.new_data),
     Tipo_Cliente |-> w.new_tipo_cli,
     Nome_Cliente |-> w.new_nome,
     Endereco |-> w.new_end,
     Bairro |-> w.new_bairro,
     Cidade |-> w.new_cidade,
     BO_Numero |-> w.new_bo,
     Tipo_Impedimento |-> w.new_imp,
     Projeto_Publico |-> w.new_proj,
     BO_Numero_Normalizado |-> normalize_bo(w.new_bo),
     Data_Parsed |-> w.new_data,
     Google_Maps |-> google_maps_link(w.new_end, w.new_bairro, w.new_cidade),
     Duplicado_ID |-> FALSE,
     Duplicado_BO |-> FALSE]

ExistingIDs == { Str(<<"A", "1">>), Str(<<"B", "2">>) }
ExistingBOs ==
    { NaN,
      Str(<<"0", "0", "1", "-", "0", "0", "0", "0", "2", "/", "0", "0", "0", "3">>) }

FormIDs == { Str(<<>>), Str(<<"A", "1">>), Str(<<"C", "3">>) }
FormBOs == { Str(<<>>), Str(<<"1", "-", "2", "/", "3">>) }
FormEnderecos == { Str(<<"R", " ", " ", "A">>), Str(<<"R", " ", "A">>) }
FormDates == { Date(2024, 4, 3), Date(2024, 12, 31) }
FormTexts == { Str(<<>>), Str(<<"x">>) }
FormProjetos == { Str(<<"S", "I", "M">>), Str(<<"N", "U+00C3", "O">>) }

\* the frame after loading, cleaning and enrichment; nothing added yet
InitForm ==
    /\ \E n \in 0..MaxExisting : \E ids \in [1..n -> ExistingIDs] :
           \E bos \in [1..n -> ExistingBOs] :
               df = FlaggedFrame(DerivedFrame(CleanedFrame(
                        [i \in 1..n |->
                            Row(ids[i], bos[i], Str(<<"R", " ", "A">>), Str(<<"B">>),
                                Str(<<"C">>))])))
    /\ df_pc = "enriched"
    /\ new_rows = <<>>
    /\ form_errors = <<>>
    /\ BOIdle /\ FetchIdle /\ JoinIdle /\ DateIdle /\ ColsIdle

\* if submitted: ... with the values w of the widgets
SubmitForm(w) ==
    LET errors == FormErrors(Required(w), w.new_id, df)
    IN  /\ df_pc = "enriched"
        /\ Len(new_rows) < MaxNew
        /\ IF errors # <<>>
           THEN /\ form_errors' = errors
                /\ UNCHANGED new_rows
           ELSE /\ new_rows' = Append(new_rows, NewRow(w))
                /\ form_errors' = <<>>
        /\ UNCHANGED <<pipe_vars, bo_vars, fetch_vars, join_vars, date_vars, cols_vars>>

NextForm ==
    \E id \in FormIDs, data \in FormDates, tipo_cli \in FormTexts,
       end \in FormEnderecos, b \in FormBOs, proj \in FormProjetos :
        SubmitForm([new_id |-> id, new_data |-> data, new_tipo_cli |-> tipo_cli,
                    new_nome |-> Str(<<"N">>), new_bairro |-> Str(<<"B">>),
                    new_cidade |-> Str(<<"C">>), new_end |-> end, new_bo |-> b,
                    new_imp |-> Str(<<"A">>), new_proj |-> proj])

SpecForm == InitForm /\ [][NextForm]_vars

\* the columns a file would hold for a record
AsLoaded(r) == Row(r.ID_Chamado, r.BO_Numero, r.Endereco, r.Bairro, r.Cidade)

\* the record r as the cleaning and enrichment compute it when it is loaded
\* after the records of frame
LoadedWith(frame, r) ==
    LET raw == [i \in 1..Len(frame) |-> AsLoaded(frame[i])] \o <<AsLoaded(r)>>
        out == FlaggedFrame(DerivedFrame(CleanedFrame(raw)))
    IN  out[Len(out)]

\* C12: every record added through the form holds the normalized report
\* number, parsed date, map link and duplicate flags that cleaning and
\* enrichment compute for it when loaded together with the existing frame
C12_FormRowAsLoaded ==
    \A i \in 1..Len(new_rows) :
        LET r == new_rows[i]
            l == LoadedWith(df, r)
        IN  /\ r.BO_Numero_Normalizado = l.BO_Numero_Normalizado
            /\ try_parse_date_any(r.Data) = {r.Data_Parsed}
            /\ r.Google_Maps = l.Google_Maps
            /\ r.Duplicado_ID = l.Duplicado_ID
            /\ r.Duplicado_BO = l.Duplicado_BO

\* the part that holds: normalized report number, parsed date and the
\* identifier flag agree with the load-time computation
C12_RowLocalFieldsAgree ==
    \A i \in 1..Len(new_rows) :
        LET r == new_rows[i]
            l == LoadedWith(df, r)
        IN  /\ r.BO_Numero_Normalizado = l.BO_Numero_Normalizado
            /\ try_parse_date_any(r.Data) = {r.Data_Parsed}
            /\ r.Duplicado_ID = l.Duplicado_ID

\* a record was added whose normalized report number an existing record holds
C12_SameBOAdded ==
    \E i \in 1..Len(new_rows) : \E j \in 1..Len(df) :
        /\ ~isna(new_rows[i].BO_Numero_Normalizado)
        /\ new_rows[i].BO_Numero_Normalizado = df[j].BO_Numero_Normalizado
        /\ ~new_rows[i].Duplicado_BO

---------------------------------------------------------------------------
(* Count conservation of the aggregation                                   *)

\* joined["Qtde"].sum()
RECURSIVE SumQtde(_)
SumQtde(rows) == IF rows = <<>> THEN 0 ELSE Head(rows).Qtde + SumQtde(Tail(rows))

\* records of the filtered view whose reconciled city is in nao_casaram
Unmatched == { j \in Recs : apply_city_fix(fdf[j]) \in nao_casaram }

\* C13: the counts of the joined frame and the records of the unmatched
\* cities add up to the number of records of the filtered view
C13_CountConservation ==
    join_pc = "joined" => SumQtde(joined) + Cardinality(Unmatched) = Len(fdf)

\* no record is lost: the total is never below the number of records
C13_NoRecordLost ==
    join_pc = "joined" => SumQtde(joined) + Cardinality(Unmatched) >= Len(fdf)

\* two boundary entries without a name and one record without a city: the
\* record is counted for both
C13_CountedTwice ==
    /\ join_pc = "joined"
    /\ Len(fdf) = 1 /\ fdf[1] = NaN
    /\ Len(joined) = 2
    /\ joined[1].Cidade_norm = <<>> /\ joined[2].Cidade_norm = <<>>
    /\ joined[1].Qtde = 1 /\ joined[2].Qtde = 1

---------------------------------------------------------------------------
(* Column mapping: expected_cols, _map_cols, rename, missing columns        *)

expected_cols ==
    << <<"I", "D", "_", "C", "h", "a", "m", "a", "d", "o">>,
       <<"D", "a", "t", "a">>,
       <<"T", "i", "p", "o", "_", "C", "l", "i", "e", "n", "t", "e">>,
       <<"N", "o", "m", "e", "_", "C", "l", "i", "e", "n", "t", "e">>,
       <<"E", "n", "d", "e", "r", "e", "c", "o">>,
       <<"B", "a", "i", "r", "r", "o">>,
       <<"C", "i", "d", "a", "d", "e">>,
       <<"B", "O", "_", "N", "u", "m", "e", "r", "o">>,
       <<"T", "i", "p", "o", "_", "I", "m", "p", "e", "d", "i", "m", "e", "n", "t", "o">>,
       <<"P", "r", "o", "j", "e", "t", "o", "_", "P", "u", "b", "l", "i", "c", "o">> >>

LowerChar(c) ==
    IF \E i \in 1..Len(UpperCase) : UpperCase[i] = c
    THEN LowerCase[CHOOSE i \in 1..Len(UpperCase) : UpperCase[i] = c]
    ELSE IF c = "U+00C7" THEN "U+00E7"
    ELSE c

\* str.lower()
lower(s) == [i \in 1..Len(s) |-> LowerChar(s[i])]

\* s.startswith(p)
startswith(s, p) == Len(p) <= Len(s) /\ SubSeq(s, 1, Len(p)) = p

\* p in s
contains(s, p) == \E i \in 0..(Len(s) - Len(p)) : SubSeq(s, i + 1, i + Len(p)) = p

\* the name the elif chain of _map_cols gives to a label, <<>> when no
\* branch takes it
MappedName(col) ==
    LET c == strip(col)
        cl == strip_accents(lower(c))
    IN  IF startswith(cl, <<"i", "d", "_", "c", "h", "a">>) \/ startswith(cl, <<"i", "d", "c", "h">>) THEN <<"I", "D", "_", "C", "h", "a", "m", "a", "d", "o">>
        ELSE IF cl = <<"d", "a", "t", "a">> \/ startswith(cl, <<"d", "a", "t", "a">>) THEN <<"D", "a", "t", "a">>
        ELSE IF (contains(cl, <<"t", "i", "p", "o">>) /\ contains(cl, <<"c", "l", "i", "e", "n", "t", "e">>)) \/ cl = <<"t", "i", "p", "o", "_", "c", "l", "i", "e", "n", "t", "e">>
             THEN <<"T", "i", "p", "o", "_", "C", "l", "i", "e", "n", "t", "e">>
        ELSE IF (contains(cl, <<"n", "o", "m", "e">>) /\ contains(cl, <<"c", "l", "i", "e", "n", "t", "e">>)) \/ cl = <<"n", "o", "m", "e", "_", "c", "l", "i", "e", "n", "t", "e">>
             THEN <<"N", "o", "m", "e", "_", "C", "l", "i", "e", "n", "t", "e">>
        ELSE IF contains(cl, <<"e", "n", "d", "e", "r">>) THEN <<"E", "n", "d", "e", "r", "e", "c", "o">>
        ELSE IF contains(cl, <<"b", "a", "i", "r", "r", "o">>) THEN <<"B", "a", "i", "r", "r", "o">>
        ELSE IF contains(cl, <<"c", "i", "d", "a", "d", "e">>) THEN <<"C", "i", "d", "a", "d", "e">>
        ELSE IF startswith(cl, <<"b", "o">>) \/ contains(cl, <<"b", "o", "_", "n", "u", "m">>) THEN <<"B", "O", "_", "N", "u", "m", "e", "r", "o">>
        ELSE IF contains(cl, <<"i", "m", "p", "e", "d">>) THEN <<"T", "i", "p", "o", "_", "I", "m", "p", "e", "d", "i", "m", "e", "n", "t", "o">>
        ELSE IF contains(cl, <<"p", "r", "o", "j", "e", "t", "o">>) THEN <<"P", "r", "o", "j", "e", "t", "o", "_", "P", "u", "b", "l", "i", "c", "o">>
        ELSE <<>>

\* cmap, as the set of the labels it holds
_map_cols(cols) == { cols[i].name : i \in { j \in 1..Len(cols) : MappedName(cols[j].name) # <<>> } }

\* df_raw.rename(columns=colmap)
Renamed(cols) ==
    [i \in 1..Len(cols) |->
        IF cols[i].name \in _map_cols(cols)
        THEN [cols[i] EXCEPT !.name = MappedName(cols[i].name)]
        ELSE cols[i]]

Labels(cols) == { cols[i].name : i \in 1..Len(cols) }

\* [c for c in expected_cols if c not in df.columns]
MissingOf(cols) == SelectSeq(expected_cols, LAMBDA c : c \notin Labels(cols))

\* for c in expected_cols: if c not in df.columns: df[c] = None
WithExpected(cols) ==
    cols \o [i \in 1..Len(MissingOf(cols)) |-> [name |-> MissingOf(cols)[i], values |-> "None"]]

---------------------------------------------------------------------------
(* Specification SpecCols: the column mapping of one loaded sheet           *)

MaxCols == 3

\* header cells of the sheets
Headers ==
    { <<"I", "D", "_", "C", "h", "a", "m", "a", "d", "o">>,
      <<"D", "a", "t", "a">>,
      <<"D", "a", "t", "a", " ", "F", "e", "c", "h", "a", "m", "e", "n", "t", "o">>,
      <<"T", "i", "p", "o", "_", "C", "l", "i", "e", "n", "t", "e">>,
      <<"N", "o", "m", "e", "_", "C", "l", "i", "e", "n", "t", "e">>,
      <<"E", "n", "d", "e", "r", "e", "U+00E7", "o">>,
      <<" ", "B", "A", "I", "R", "R", "O", " ">>,
      <<"C", "i", "d", "a", "d", "e">>,
      <<"B", "O", "_", "N", "u", "m", "e", "r", "o">>,
      <<"T", "i", "p", "o", "_", "I", "m", "p", "e", "d", "i", "m", "e", "n", "t", "o">>,
      <<"P", "r", "o", "j", "e", "t", "o", "_", "P", "u", "b", "l", "i", "c", "o">>,
      <<"O", "b", "s", "e", "r", "v", "a", "c", "a", "o">> }

\* a sheet's columns: distinct labels, values read from the file
InitCols ==
    /\ \E n \in 0..MaxCols : \E h \in [1..n -> Headers] :
           /\ \A i, j \in 1..n : i # j => h[i] # h[j]
           /\ columns = [i \in 1..n |-> [name |-> h[i], values |-> "file"]]
    /\ missing = <<>>
    /\ cols_pc = "raw"
    /\ BOIdle /\ PipeIdle /\ FetchIdle /\ JoinIdle /\ DateIdle /\ FormIdle

\* colmap = _map_cols(df_raw); df = df_raw.rename(columns=colmap).copy();
\* missing = [...]
MapColumns ==
    /\ cols_pc = "raw"
    /\ columns' = Renamed(columns)
    /\ missing' = MissingOf(Renamed(columns))
    /\ cols_pc' = "renamed"
    /\ UNCHANGED <<bo_vars, pipe_vars, fetch_vars, join_vars, date_vars, form_vars>>

\* for c in expected_cols: ...
EnsureExpected ==
    /\ cols_pc = "renamed"
    /\ columns' = WithExpected(columns)
    /\ cols_pc' = "ensured"
    /\ UNCHANGED <<missing, bo_vars, pipe_vars, fetch_vars, join_vars, date_vars, form_vars>>

NextCols == MapColumns \/ EnsureExpected

SpecCols == InitCols /\ [][NextCols]_vars

\* the columns that hold the label c
Holding(c) == { i \in 1..Len(columns) : columns[i].name = c }

Canonical == { expected_cols[i] : i \in 1..Len(expected_cols) }

\* C14: after the column mapping each canonical name is held by exactly one
\* column, and a canonical name listed as missing is held by an empty one
C14_EachCanonicalOnce ==
    cols_pc = "ensured" =>
        \A c \in Canonical :
            /\ Cardinality(Holding(c)) = 1
            /\ (\E i \in 1..Len(missing) : missing[i] = c) =>
                   \A i \in Holding(c) : columns[i].values = "None"

\* the part that holds: each canonical name is held by some column, and by
\* one empty column when no header was mapped to it
C14_EachCanonicalHeld ==
    cols_pc = "ensured" =>
        \A c \in Canonical :
            /\ Holding(c) # {}
            /\ (\E i \in 1..Len(missing) : missing[i] = c) =>
                   /\ Cardinality(Holding(c)) = 1
                   /\ \A i \in Holding(c) : columns[i].values = "None"

\* two headers of one sheet were renamed to Data
C14_TwoDataColumns ==
    /\ cols_pc = "ensured"
    /\ Cardinality(Holding(<<"D", "a", "t", "a">>)) = 2

====
